---- MODULE Spec2Model ----
(***************************************************************************)
(* Model of lean::light_checker (src/library/light_checker.cpp): the type  *)
(* inferer, its scoped cache, and the context/substitution lifecycle that  *)
(* governs cache validity.                                                 *)
(*                                                                         *)
(* Expressions handed to the checker are nodes of a fixed heap (Node):     *)
(* a node has an identity (its index), a kind, children and the is_shared  *)
(* bit.  Types computed by the checker are structural terms (records);     *)
(* binder names are cosmetic under de Bruijn indices and are left out.     *)
(***************************************************************************)
EXTENDS Integers, Sequences, FiniteSets, TLC

(***************************************************************************)
(* Structural terms                                                        *)
(***************************************************************************)
NoExpr == [k |-> "None"]
Var(i) == [k |-> "Var", i |-> i]
Const(n) == [k |-> "Const", n |-> n]
App(f, as) == [k |-> "App", f |-> f, a |-> as]
Lam(d, b) == [k |-> "Lam", d |-> d, b |-> b]
Pi(d, b) == [k |-> "Pi", d |-> d, b |-> b]
Let(t, v, b) == [k |-> "Let", t |-> t, v |-> v, b |-> b]
\* mk_type that does not take the level it is given
Type_Flat(l) == [k |-> "Type", l |-> 0]

Type(l) == [k |-> "Type", l |-> l]
Value(v) == [k |-> "Value", v |-> v]
Eq(l, r) == [k |-> "Eq", l |-> l, r |-> r]
Meta(t) == [k |-> "Meta", t |-> t]

\* mk_bool_type(): the proposition sort, a builtin value
Bool == Value("Bool")

\* level(): the bottom universe level
BottomLevel == 0

(***************************************************************************)
(* The environment: declared objects, with an optional type and an         *)
(* optional definition.                                                    *)
(***************************************************************************)
Env ==
  [ N |-> [has_type |-> TRUE, type |-> Type(0), val |-> NoExpr],
    a |-> [has_type |-> TRUE, type |-> Const("N"), val |-> NoExpr],
    F |-> [has_type |-> TRUE, type |-> Type(0), val |-> Pi(Const("N"), Const("N"))],
    h |-> [has_type |-> TRUE, type |-> Const("F"), val |-> NoExpr],
    p |-> [has_type |-> TRUE, type |-> Pi(Type(0), Pi(Var(0), Var(1))), val |-> NoExpr],
    u |-> [has_type |-> FALSE, type |-> NoExpr, val |-> NoExpr] ]

\* to_value(e).get_type()
ValueType(v) == IF v = "Bool" THEN Type(0) ELSE Bool

(***************************************************************************)
(* The expression heap.  sh is is_shared(e).  Children are node indices;   *)
(* 0 stands for an absent (null) expression.                               *)
(***************************************************************************)
Node ==
  << [k |-> "Const", sh |-> FALSE, n |-> "N"],                     \* 1  N
     [k |-> "Const", sh |-> FALSE, n |-> "a"],                     \* 2  a
     [k |-> "Var",   sh |-> FALSE, i |-> 0],                       \* 3  #0
     [k |-> "App",   sh |-> TRUE,  f |-> 3, a |-> <<2>>],          \* 4  s = (#0 a), shared
     [k |-> "Type",  sh |-> FALSE, l |-> 1],                       \* 5  Type 1
     [k |-> "Pi",    sh |-> FALSE, d |-> 1, b |-> 5],              \* 6  D = Pi(N, Type 1)
     [k |-> "Lam",   sh |-> FALSE, d |-> 6, b |-> 4],              \* 7  fun y : D, s
     [k |-> "Pi",    sh |-> FALSE, d |-> 4, b |-> 4],              \* 8  Pi(x : s, s)
     [k |-> "Pi",    sh |-> FALSE, d |-> 4, b |-> 2],              \* 9  Pi(x : s, a)
     [k |-> "App",   sh |-> FALSE, f |-> 2, a |-> <<2>>],          \* 10 (a a)
     [k |-> "Const", sh |-> FALSE, n |-> "h"],                     \* 11 h
     [k |-> "App",   sh |-> FALSE, f |-> 11, a |-> <<2>>],         \* 12 (h a)
     [k |-> "Const", sh |-> FALSE, n |-> "p"],                     \* 13 p
     [k |-> "App",   sh |-> FALSE, f |-> 13, a |-> <<1, 2>>],      \* 14 (p N a)
     [k |-> "Let",   sh |-> FALSE, t |-> 0, v |-> 4, b |-> 3],     \* 15 let x := s in #0
     [k |-> "Let",   sh |-> FALSE, t |-> 1, v |-> 2, b |-> 3],     \* 16 let x : N := a in #0
     [k |-> "Meta",  sh |-> FALSE, t |-> 1],                       \* 17 ?m : N
     [k |-> "Meta",  sh |-> TRUE,  t |-> 0],                       \* 18 ?m without a type
     [k |-> "Const", sh |-> FALSE, n |-> "u"],                     \* 19 u, object without type
     [k |-> "Eq",    sh |-> TRUE,  l |-> 2, r |-> 2],              \* 20 a = a, shared
     [k |-> "Value", sh |-> TRUE,  v |-> "Bool"],                  \* 21 Bool, shared
     [k |-> "Type",  sh |-> TRUE,  l |-> 0],                       \* 22 Type 0, shared
     [k |-> "Pi",    sh |-> FALSE, d |-> 21, b |-> 20],            \* 23 Pi(x : Bool, a = a)
     [k |-> "Var",   sh |-> TRUE,  i |-> 0],                       \* 24 #0, shared
     [k |-> "Lam",   sh |-> FALSE, d |-> 1, b |-> 8],              \* 25 fun y : N, Pi(x : s, s)
     [k |-> "Let",   sh |-> FALSE, t |-> 10, v |-> 19, b |-> 2],   \* 26 let x : (a a) := u in a
     [k |-> "Pi",    sh |-> TRUE,  d |-> 1, b |-> 1],              \* 27 q = Pi(x : N, N), shared
     [k |-> "Let",   sh |-> FALSE, t |-> 1, v |-> 2, b |-> 27],    \* 28 let x : N := a in q
     [k |-> "Pi",    sh |-> FALSE, d |-> 27, b |-> 2],             \* 29 Pi(x : q, a)
     [k |-> "Pi",    sh |-> FALSE, d |-> 28, b |-> 29]             \* 30 Pi(x : (let .. in q), Pi(y : q, a))
  >>

Nodes == 1..Len(Node)

\* The structural term of a heap node
RECURSIVE Val(_)
Val(e) ==
  IF e = 0 THEN NoExpr
  ELSE LET n == Node[e] IN
    CASE n.k = "Var"   -> Var(n.i)
      [] n.k = "Const" -> Const(n.n)
      [] n.k = "App"   -> App(Val(n.f), [j \in 1..Len(n.a) |-> Val(n.a[j])])
      [] n.k = "Lam"   -> Lam(Val(n.d), Val(n.b))
      [] n.k = "Pi"    -> Pi(Val(n.d), Val(n.b))
      [] n.k = "Let"   -> Let(Val(n.t), Val(n.v), Val(n.b))
      [] n.k = "Type"  -> Type(n.l)
      [] n.k = "Value" -> Value(n.v)
      [] n.k = "Eq"    -> Eq(Val(n.l), Val(n.r))
      [] n.k = "Meta"  -> Meta(Val(n.t))

is_shared(e) == Node[e].sh

(***************************************************************************)
(* Contexts.  A context is a sequence of entries, the most recent last;    *)
(* an entry has an optional domain (a term) and an optional body (a heap   *)
(* node).  Context objects have an identity: object 0 is the empty         *)
(* context, objects 1 and 2 are structurally equal but distinct; object 3   *)
(* ends with a let entry without domain, and in object 4 the domain of the *)
(* last entry refers to the entry before it.                               *)
(***************************************************************************)
Entry(d, b) == [dom |-> d, body |-> b]

CtxVal ==
  [ c \in 0..4 |->
      CASE c = 0 -> << >>
        [] c = 1 -> << Entry(Pi(Const("N"), Type(0)), 0) >>
        [] c = 2 -> << Entry(Pi(Const("N"), Type(0)), 0) >>
        [] c = 3 -> << Entry(Pi(Const("N"), Type(0)), 0), Entry(NoExpr, 4) >>
        [] c = 4 -> << Entry(Type(0), 0), Entry(Pi(Const("N"), Var(1)), 0) >> ]

CtxObjs == DOMAIN CtxVal

\* context(): the empty context
EmptyCtx == 0

extend(ctx, d, b) == Append(ctx, Entry(d, b))

\* lookup(ctx, i): the entry of de Bruijn index i
lookup(ctx, i) == ctx[Len(ctx) - i]

\* lookup_ext(ctx, i): the entry and the context in which it was introduced
lookup_ext(ctx, i) ==
  [ce |-> ctx[Len(ctx) - i], ce_ctx |-> SubSeq(ctx, 1, Len(ctx) - i - 1)]

(***************************************************************************)
(* Term operations of the kernel used by the checker                       *)
(***************************************************************************)
\* max(l1, l2)
max(a, b) == IF a >= b THEN a ELSE b

RECURSIVE SeqMax(_)
SeqMax(q) == IF q = << >> THEN 0 ELSE max(Head(q), SeqMax(Tail(q)))

Pred(n) == IF n > 0 THEN n - 1 ELSE 0

\* One more than the largest free de Bruijn index of t (0 when t is closed)
RECURSIVE FreeBound(_)
FreeBound(t) ==
  CASE t.k = "Var" -> t.i + 1
    [] t.k = "App" -> max(FreeBound(t.f), SeqMax([j \in 1..Len(t.a) |-> FreeBound(t.a[j])]))
    [] t.k \in {"Lam", "Pi"} -> max(FreeBound(t.d), Pred(FreeBound(t.b)))
    [] t.k = "Let" -> max(max(FreeBound(t.t), FreeBound(t.v)), Pred(FreeBound(t.b)))
    [] t.k = "Eq" -> max(FreeBound(t.l), FreeBound(t.r))
    [] OTHER -> 0

\* closed(t): t has no free variables
closed(t) == FreeBound(t) = 0

\* lift_free_vars(t, d), below `off` binders
RECURSIVE LiftFrom(_, _, _)
LiftFrom(t, off, d) ==
  CASE t.k = "Var" -> IF t.i >= off THEN Var(t.i + d) ELSE t
    [] t.k = "App" -> App(LiftFrom(t.f, off, d), [j \in 1..Len(t.a) |-> LiftFrom(t.a[j], off, d)])
    [] t.k = "Lam" -> Lam(LiftFrom(t.d, off, d), LiftFrom(t.b, off + 1, d))
    [] t.k = "Pi"  -> Pi(LiftFrom(t.d, off, d), LiftFrom(t.b, off + 1, d))
    [] t.k = "Let" -> Let(LiftFrom(t.t, off, d), LiftFrom(t.v, off, d), LiftFrom(t.b, off + 1, d))
    [] t.k = "Eq"  -> Eq(LiftFrom(t.l, off, d), LiftFrom(t.r, off, d))
    [] OTHER -> t

lift_free_vars(t, d) == LiftFrom(t, 0, d)

\* instantiate(t, n, subst), below `off` binders: the free variables
\* 0..n-1 of t are replaced by subst[n], ..., subst[1]; the others drop by n
RECURSIVE InstFrom(_, _, _, _)
InstFrom(t, off, n, subst) ==
  CASE t.k = "Var" ->
         IF t.i < off THEN t
         ELSE IF t.i < off + n THEN lift_free_vars(subst[n - (t.i - off)], off)
         ELSE Var(t.i - n)
    [] t.k = "App" -> App(InstFrom(t.f, off, n, subst),
                          [j \in 1..Len(t.a) |-> InstFrom(t.a[j], off, n, subst)])
    [] t.k = "Lam" -> Lam(InstFrom(t.d, off, n, subst), InstFrom(t.b, off + 1, n, subst))
    [] t.k = "Pi"  -> Pi(InstFrom(t.d, off, n, subst), InstFrom(t.b, off + 1, n, subst))
    [] t.k = "Let" -> Let(InstFrom(t.t, off, n, subst), InstFrom(t.v, off, n, subst),
                          InstFrom(t.b, off + 1, n, subst))
    [] t.k = "Eq"  -> Eq(InstFrom(t.l, off, n, subst), InstFrom(t.r, off, n, subst))
    [] OTHER -> t

instantiate(t, n, subst) == InstFrom(t, 0, n, subst)

\* m_normalizer(t, ctx): the normal form of t under ctx (delta, beta, let)
RECURSIVE normalize(_, _)
normalize(t, ctx) ==
  CASE t.k = "Const" ->
         IF Env[t.n].val # NoExpr THEN normalize(Env[t.n].val, ctx) ELSE t
    [] t.k = "Var" ->
         IF t.i < Len(ctx) /\ lookup(ctx, t.i).body # 0
         THEN normalize(lift_free_vars(Val(lookup(ctx, t.i).body), t.i + 1), ctx)
         ELSE t
    [] t.k = "App" ->
         LET f == normalize(t.f, ctx)
             as == [j \in 1..Len(t.a) |-> normalize(t.a[j], ctx)]
         IN IF f.k = "Lam"
            THEN LET r == instantiate(f.b, 1, <<as[1]>>)
                 IN IF Len(as) = 1 THEN normalize(r, ctx)
                    ELSE normalize(App(r, Tail(as)), ctx)
            ELSE App(f, as)
    [] t.k = "Lam" -> Lam(normalize(t.d, ctx), normalize(t.b, extend(ctx, t.d, 0)))
    [] t.k = "Pi"  -> Pi(normalize(t.d, ctx), normalize(t.b, extend(ctx, t.d, 0)))
    [] t.k = "Let" -> normalize(instantiate(t.b, 1, <<t.v>>), ctx)
    [] t.k = "Eq"  -> Eq(normalize(t.l, ctx), normalize(t.r, ctx))
    [] OTHER -> t

is_pi(t) == t.k = "Pi"

is_type(t) == t.k = "Type"

(***************************************************************************)
(* The state threaded through one infer call: the scoped cache and the     *)
(* interrupt flag, with a log of what the call did to the cache.           *)
(*   cache  : the stack of scopes of m_cache, each a set of entries        *)
(*            [e, ty] tagged with the context, substitution and version    *)
(*            under which ty was computed                                  *)
(*   intr   : m_interrupted, as read by the next check                     *)
(*   arm/fuel : set_interrupt(true) arrives from another thread after      *)
(*            `fuel` more interruption checks have passed                  *)
(*   calls  : the number of infer_type invocations so far; an invocation   *)
(*            is identified by its number                                  *)
(*   probes, hits, ins : the lookups, the hits and the inserts so far      *)
(*   done   : the expensive invocations that have returned a type          *)
(*   norms  : the calls of the normalizer made by get_range, in order      *)
(***************************************************************************)
Ok(ty, st) == [err |-> "", ty |-> ty, st |-> st, path |-> << >>]

Fail(err, st) == [err |-> err, ty |-> NoExpr, st |-> st, path |-> << >>]

\* An invocation that entered a placeholder for its node into the cache
\* before computing, and leaves it there when the exception passes
Unwind_LeavesEntry(r, e, ctx, id) ==
  [r EXCEPT !.path = Append(@, [e |-> e, at |-> ctx, id |-> id]),
            !.st.cache[1] = @ \cup {[e |-> e, ty |-> NoExpr, at |-> ctx,
                                     sub |-> r.st.sub, ver |-> r.st.ver,
                                     sc |-> 0]},
            !.st.ins = @ \cup {[e |-> e, at |-> ctx, by |-> id, sc |-> 0]}]

\* The exception leaves invocation id of infer_type, on node e under ctx
Unwind(r, e, ctx, id) == [r EXCEPT !.path = Append(@, [e |-> e, at |-> ctx, id |-> id])]

\* check_interrupted(m_interrupted); the normalizer checks its own flag alike
check_interrupted(st) ==
  IF st.intr THEN [ok |-> FALSE, st |-> st]
  ELSE IF st.arm /\ st.fuel = 0 THEN [ok |-> FALSE, st |-> [st EXCEPT !.intr = TRUE]]
  ELSE IF st.arm THEN [ok |-> TRUE, st |-> [st EXCEPT !.fuel = @ - 1]]
  ELSE [ok |-> TRUE, st |-> st]

\* cache::mk_scope constructor and destructor.  st.open names the open
\* scopes, outermost first: the outermost scope is 0, and a scope pushed
\* during a call is named by the number of invocations of infer_type made
\* before it (the body of a binder is an invocation, so no two scopes of a
\* call share a name)
PushScope(st) == [st EXCEPT !.cache = Append(@, {}), !.open = Append(@, st.calls)]

\* A scope whose entries go to the enclosing scope when it is left
PopScope_KeepsEntries(st) ==
  LET d == Len(st.cache)
      top == st.cache[d]
  IN [st EXCEPT !.cache = [SubSeq(@, 1, d - 1) EXCEPT
                             ![d - 1] = {x \in @ : x.e \notin {y.e : y \in top}} \cup top],
                !.open = SubSeq(@, 1, d - 1)]

PopScope(st) ==
  [st EXCEPT !.cache = SubSeq(@, 1, Len(@) - 1), !.open = SubSeq(@, 1, Len(@) - 1)]

\* m_cache.find(e): the entry of e visible through the open scopes, that of
\* the innermost scope that has one
CacheFind(cache, e) ==
  LET has == {j \in 1..Len(cache) : \E x \in cache[j] : x.e = e}
  IN IF has = {} THEN {}
     ELSE {x \in cache[CHOOSE j \in has : \A i \in has : i <= j] : x.e = e}

\* m_cache.insert(e, r): the entry goes to the innermost open scope, where it
\* replaces an entry of the same key
CacheInsert(st, e, r, ctx, id) ==
  LET sc == st.open[Len(st.open)]
      en == [e |-> e, ty |-> r, at |-> ctx, sub |-> st.sub, ver |-> st.ver, sc |-> sc]
  IN [st EXCEPT !.cache[Len(st.cache)] = {x \in @ : x.e # e} \cup {en},
                !.ins = @ \cup {[e |-> e, at |-> ctx, by |-> id, sc |-> sc]}]

\* A cache used for every node, shared or not
UseCache_Always(e) == TRUE

\* The test that gates the cache (line 115)
UseCache(e) == is_shared(e)

\* m_normalizer(t, ctx) was called at the step of get_range(_, e, ctx) that
\* has num binders left to peel
Normalized(st, t, num, e, ctx) ==
  [st EXCEPT !.norms = Append(@, [t |-> t, num |-> num, e |-> e, at |-> ctx,
                                  k |-> st.calls])]

RECURSIVE Peel(_, _, _, _, _)

\* The loop of get_range with the normalizer called at every step
Peel_NormalizesAlways(t, num, e, ctx, st) ==
  LET normalized(c, nt) ==
        IF ~c.ok THEN Fail("Interrupted", c.st)
        ELSE IF is_pi(nt)
             THEN Peel(nt.b, num - 1, e, ctx, Normalized(c.st, t, num, e, ctx))
        ELSE Fail("FunctionExpected", Normalized(c.st, t, num, e, ctx))
  IN IF num = 0 THEN Ok(t, st)
     ELSE normalized(check_interrupted(st), normalize(t, ctx))

\* The peeling loop of get_range: num binders are still to be peeled from t
Peel(t, num, e, ctx, st) ==
  LET normalized(c, nt) ==
        IF ~c.ok THEN Fail("Interrupted", c.st)
        ELSE IF is_pi(nt)
             THEN Peel(nt.b, num - 1, e, ctx, Normalized(c.st, t, num, e, ctx))
        ELSE Fail("FunctionExpected", Normalized(c.st, t, num, e, ctx))
  IN IF num = 0 THEN Ok(t, st)
     ELSE IF is_pi(t) THEN Peel(t.b, num - 1, e, ctx, st)
     ELSE normalized(check_interrupted(st), normalize(t, ctx))

\* get_range that returns the peeled body as it is
get_range_NoInstantiate(t, e, ctx, st) == Peel(t, Len(Node[e].a), e, ctx, st)

get_range(t, e, ctx, st) ==
  LET peeled(r, args) ==
        IF r.err # "" THEN r
        ELSE IF closed(r.ty) THEN r
        ELSE Ok(instantiate(r.ty, Len(args), args), r.st)
  IN peeled(Peel(t, Len(Node[e].a), e, ctx, st),
            [j \in 1..Len(Node[e].a) |-> Val(Node[e].a[j])])

\* The context of a let body with the value entered as the type of the
\* variable
let_ctx_ValueAsType(e, ctx) == extend(ctx, Val(Node[e].v), Node[e].v)

\* extend(ctx, let_name(e), let_type(e), let_value(e)): the context of the
\* body of the let node e
let_ctx(e, ctx) == extend(ctx, Val(Node[e].t), Node[e].v)

\* The Var case continuing in the context of the variable itself
var_step_SameContext(e, ctx) ==
  [e |-> lookup_ext(ctx, Node[e].i).ce.body, ctx |-> ctx]

\* Lines 129-133: the value of the entry of the variable e and the context
\* in which the entry was introduced, where the Var case continues
var_step(e, ctx) ==
  LET p == lookup_ext(ctx, Node[e].i)
  IN [e |-> p.ce.body, ctx |-> p.ce_ctx]

\* The invocation of infer_type on e under ctx makes a recursive call on
\* node to under context in
Step(st, e, ctx, to, in) ==
  [st EXCEPT !.steps = @ \cup {[e |-> e, at |-> ctx, to |-> to, in |-> in]}]

\* A call is cut after MaxCalls invocations of infer_type: a recursion that
\* needs more does not return in the program
MaxCalls == 12

RECURSIVE infer_type(_, _, _)
RECURSIVE infer_universe(_, _, _)
RECURSIVE infer_expensive(_, _, _)

\* infer_universe without the case of the proposition sort
infer_universe_NoBoolCase(t, ctx, st) ==
  LET level(c, u) ==
        IF ~c.ok THEN Fail("Interrupted", c.st)
        ELSE IF is_type(u) THEN Ok(u.l, c.st)
        ELSE Fail("TypeExpected", c.st)
      inferred(r) ==
        IF r.err # "" THEN r
        ELSE level(check_interrupted(r.st), normalize(r.ty, ctx))
  IN inferred(infer_type(t, ctx, st))

infer_universe(t, ctx, st) ==
  LET level(c, u) ==
        IF ~c.ok THEN Fail("Interrupted", c.st)
        ELSE IF is_type(u) THEN Ok(u.l, c.st)
        ELSE IF u = Bool THEN Ok(BottomLevel, c.st)
        ELSE Fail("TypeExpected", c.st)
      inferred(r) ==
        IF r.err # "" THEN r
        ELSE level(check_interrupted(r.st), normalize(r.ty, ctx))
  IN inferred(infer_type(t, ctx, st))

\* The second switch of infer_type (lines 122-161)
infer_expensive(e, ctx, st) ==
  LET n == Node[e]
      \* Var: the type of the let value under its own context, lifted
      lifted(r, d) ==
        IF r.err # "" THEN r ELSE Ok(lift_free_vars(r.ty, d), r.st)
      chase(p) ==
        lifted(infer_type(p.e, p.ctx, Step(st, e, ctx, p.e, p.ctx)),
               Len(ctx) - Len(p.ctx))
      \* App: the range of the type of the head
      range(f_t) ==
        IF f_t.err # "" THEN f_t ELSE get_range(f_t.ty, e, ctx, f_t.st)
      \* Lambda: the scope is left on return and on exception
      abstracted(r) ==
        IF r.err # "" THEN [r EXCEPT !.st = PopScope(@)]
        ELSE Ok(Pi(Val(n.d), r.ty), PopScope(r.st))
      \* Pi: the universe of the domain, then of the body in a scope
      body(l1, l2) ==
        IF l2.err # "" THEN [l2 EXCEPT !.st = PopScope(@)]
        ELSE Ok(Type(max(l1.ty, l2.ty)), PopScope(l2.st))
      domain(l1) ==
        IF l1.err # "" THEN l1
        ELSE body(l1, infer_universe(n.b, extend(ctx, Val(n.d), 0),
                                     PushScope(Step(l1.st, e, ctx, n.b,
                                                    extend(ctx, Val(n.d), 0)))))
  IN CASE n.k = "Var" -> chase(var_step(e, ctx))
       [] n.k = "App" -> range(infer_type(n.f, ctx, Step(st, e, ctx, n.f, ctx)))
       [] n.k = "Lam" ->
            abstracted(infer_type(n.b, extend(ctx, Val(n.d), 0),
                                  PushScope(Step(st, e, ctx, n.b,
                                                 extend(ctx, Val(n.d), 0)))))
       [] n.k = "Pi" -> domain(infer_universe(n.d, ctx, Step(st, e, ctx, n.d, ctx)))
       [] n.k = "Let" ->
            [infer_type(n.b, let_ctx(e, ctx),
                        PushScope(Step(st, e, ctx, n.b, let_ctx(e, ctx))))
               EXCEPT !.st = PopScope(@)]

infer_type(e, ctx, st) ==
  LET n == Node[e]
      id == st.calls + 1
      s0 == [st EXCEPT !.calls = id]
      cheap == \/ n.k \in {"Meta", "Const", "Eq", "Value", "Type"}
               \/ n.k = "Var" /\ lookup(ctx, n.i).dom # NoExpr
      \* lines 163-166
      returned(r, s) ==
        Ok(r.ty, IF UseCache(e) THEN CacheInsert(s, e, r.ty, ctx, id) ELSE s)
      computed(r) ==
        IF r.err # "" THEN Unwind(r, e, ctx, id)
        ELSE returned(r, [r.st EXCEPT !.done = @ \cup {[e |-> e, id |-> id]}])
      \* lines 117-119
      hit(s, en) ==
        Ok(en.ty, [s EXCEPT !.hits = @ \cup {[e |-> e, ty |-> en.ty, at |-> en.at,
                                              sub |-> en.sub, ver |-> en.ver,
                                              use |-> ctx, sc |-> en.sc,
                                              open |-> s.open]}])
      probed(s, found) ==
        IF found # {} THEN hit(s, CHOOSE x \in found : TRUE)
        ELSE computed(infer_expensive(e, ctx, s))
      \* lines 113-116
      checked(c) ==
        IF ~c.ok THEN Unwind(Fail("Interrupted", c.st), e, ctx, id)
        ELSE IF UseCache(e)
             THEN probed([c.st EXCEPT !.probes = @ \cup {[e |-> e, at |-> ctx]}],
                         CacheFind(c.st.cache, e))
             ELSE probed(c.st, {})
  IN IF id > MaxCalls THEN Fail("NoReturn", st)
     ELSE IF cheap
     THEN CASE n.k = "Meta" ->
                 IF n.t = 0 THEN Unwind(Fail("UnassignedMetavariable", s0), e, ctx, id)
                 ELSE Ok(Val(n.t), s0)
            [] n.k = "Const" ->
                 IF Env[n.n].has_type THEN Ok(Env[n.n].type, s0)
                 ELSE Unwind(Fail("UntypedConstant", s0), e, ctx, id)
            [] n.k = "Var" -> Ok(lookup(ctx, n.i).dom, s0)
            [] n.k = "Eq" -> Ok(Bool, s0)
            [] n.k = "Value" -> Ok(ValueType(n.v), s0)
            [] n.k = "Type" -> Ok(Type(n.l + 1), s0)
     ELSE checked(check_interrupted(s0))

(***************************************************************************)
(* The checker object (light_checker::imp) and its environment             *)
(***************************************************************************)
\* Substitution versions are capped at MaxTs; an asynchronous interrupt
\* arrives after at most MaxFuel passed checks
MaxTs == 1
MaxFuel == 3

\* substitution objects; 0 is nullptr
SubstObjs == {1}

NoSubst == 0

VARIABLES
  m_ctx,              \* last-seen context object
  m_subst,            \* last-seen substitution object
  m_subst_timestamp,  \* recorded version of m_subst
  m_cache,            \* the scoped cache
  m_interrupted,      \* the checker's interrupt flag
  norm_interrupted,   \* the normalizer's interrupt flag
  subst_ts,           \* the current version of every substitution object
  last,               \* history: the last operation and what it did
  intd,               \* history: the call that was interrupted last
  seen                \* history: an earlier successful call with the same
                      \* context and substitution version as the last one

vars == <<m_ctx, m_subst, m_subst_timestamp, m_cache, m_interrupted,
          norm_interrupted, subst_ts, last, intd, seen>>

\* The lifecycle fields of the checker, as one record
Self == [m_ctx |-> m_ctx, m_subst |-> m_subst,
         m_subst_timestamp |-> m_subst_timestamp, m_cache |-> m_cache]

\* m_cache.clear()
EmptyCache == << {} >>

\* get_timestamp() of the object subst points to
get_timestamp(subst) == subst_ts[subst]

\* clear() that leaves the recorded version in place
clear_KeepsTimestamp(ck) ==
  [ck EXCEPT !.m_cache = EmptyCache, !.m_ctx = EmptyCtx, !.m_subst = NoSubst]

clear(ck) ==
  [ck EXCEPT !.m_cache = EmptyCache, !.m_ctx = EmptyCtx,
             !.m_subst = NoSubst, !.m_subst_timestamp = 0]

\* set_ctx that resets the checker on every call
set_ctx_AlwaysClears(ck, ctx) == [clear(ck) EXCEPT !.m_ctx = ctx]

\* set_ctx comparing the contexts structurally instead of by identity
set_ctx_Structural(ck, ctx) ==
  IF CtxVal[ck.m_ctx] # CtxVal[ctx] THEN [clear(ck) EXCEPT !.m_ctx = ctx] ELSE ck

set_ctx(ck, ctx) ==
  IF ck.m_ctx # ctx THEN [clear(ck) EXCEPT !.m_ctx = ctx] ELSE ck

\* set_subst that keeps the cache when the substitution object changes
set_subst_KeepsOnNewObject(ck, subst) ==
  IF ck.m_subst = subst
  THEN IF ck.m_subst # NoSubst /\ get_timestamp(ck.m_subst) > ck.m_subst_timestamp
       THEN [ck EXCEPT !.m_subst_timestamp = get_timestamp(ck.m_subst),
                       !.m_cache = EmptyCache]
       ELSE ck
  ELSE [ck EXCEPT !.m_subst = subst,
                  !.m_subst_timestamp = IF subst # NoSubst THEN get_timestamp(subst) ELSE 0]

\* set_subst that records a newer version without clearing the cache
set_subst_KeepsOnNewVersion(ck, subst) ==
  IF ck.m_subst = subst
  THEN IF ck.m_subst # NoSubst /\ get_timestamp(ck.m_subst) > ck.m_subst_timestamp
       THEN [ck EXCEPT !.m_subst_timestamp = get_timestamp(ck.m_subst)]
       ELSE ck
  ELSE [ck EXCEPT !.m_subst = subst, !.m_cache = EmptyCache,
                  !.m_subst_timestamp = IF subst # NoSubst THEN get_timestamp(subst) ELSE 0]

set_subst(ck, subst) ==
  IF ck.m_subst = subst
  THEN IF ck.m_subst # NoSubst /\ get_timestamp(ck.m_subst) > ck.m_subst_timestamp
       THEN [ck EXCEPT !.m_subst_timestamp = get_timestamp(ck.m_subst),
                       !.m_cache = EmptyCache]
       ELSE ck
  ELSE [ck EXCEPT !.m_subst = subst, !.m_cache = EmptyCache,
                  !.m_subst_timestamp = IF subst # NoSubst THEN get_timestamp(subst) ELSE 0]

\* The state an infer call starts from
Start(cache, intr, arm, fuel, subst) ==
  [cache |-> cache, intr |-> intr, arm |-> arm, fuel |-> fuel,
   sub |-> subst, ver |-> IF subst # NoSubst THEN get_timestamp(subst) ELSE 0,
   calls |-> 0, probes |-> {}, hits |-> {}, ins |-> {}, done |-> {},
   norms |-> << >>, open |-> <<0>>, steps |-> {}]

Result(r) == [err |-> r.err, ty |-> r.ty]

Keys(layer) == {x.e : x \in layer}

NoCall == [e |-> 0]

\* The checker's fields as clear() finds them
Pre == [m_ctx |-> m_ctx, m_subst |-> m_subst, m_subst_timestamp |-> m_subst_timestamp,
        keys |-> Keys(m_cache[1]), intr |-> m_interrupted]

\* How the arguments of a call relate to the checker's fields as the call
\* finds them
Found(e, c, subst) ==
  [ctx_differs |-> c # m_ctx,
   ctx_equal |-> CtxVal[c] = CtxVal[m_ctx],
   subst_differs |-> subst # m_subst,
   version_advanced |-> /\ subst = m_subst /\ subst # NoSubst
                        /\ get_timestamp(subst) > m_subst_timestamp,
   cached |-> e \in Keys(m_cache[1]),
   intr |-> m_interrupted,
   resume |-> IF /\ intd # NoCall /\ intd.e = e /\ intd.ctx = c /\ intd.sub = subst
                 /\ intd.ver = (IF subst # NoSubst THEN get_timestamp(subst) ELSE 0)
              THEN intd ELSE NoCall]

Init ==
  /\ m_ctx = EmptyCtx
  /\ m_subst = NoSubst
  /\ m_subst_timestamp = 0
  /\ m_cache = EmptyCache
  /\ m_interrupted = FALSE
  /\ norm_interrupted = FALSE
  /\ subst_ts = [s \in SubstObjs |-> 0]
  /\ last = [op |-> "init"]
  /\ intd = NoCall
  /\ seen = NoCall

\* operator()(e, ctx, subst, uc); while it runs another thread may call
\* set_interrupt(true) (arm), which the call observes after `fuel` checks
Infer(e, c, subst, arm, fuel, keep) ==
  /\ FreeBound(Val(e)) <= Len(CtxVal[c])
  /\ \E ck \in {set_subst(set_ctx(Self, c), subst)} :
     \E r \in {infer_type(e, CtxVal[c], Start(ck.m_cache, m_interrupted, arm, fuel, subst))} :
        /\ arm => ~m_interrupted /\ r.st.intr
        /\ m_ctx' = ck.m_ctx
        /\ m_subst' = ck.m_subst
        /\ m_subst_timestamp' = ck.m_subst_timestamp
        /\ m_cache' = r.st.cache
        /\ m_interrupted' = r.st.intr
        /\ norm_interrupted' = IF r.st.intr # m_interrupted THEN r.st.intr ELSE norm_interrupted
        /\ last' = [op |-> "infer", e |-> e, ctx |-> c, sub |-> subst, ver |-> r.st.ver,
                    arm |-> arm, res |-> Result(r), pre |-> Found(e, c, subst),
                    probes |-> r.st.probes, hits |-> r.st.hits, ins |-> r.st.ins,
                    done |-> r.st.done, path |-> r.path, calls |-> r.st.calls,
                    norms |-> r.st.norms, steps |-> r.st.steps]
        /\ intd' = IF r.err = "Interrupted"
                   THEN [e |-> e, ctx |-> c, sub |-> subst, ver |-> r.st.ver,
                         cached |-> e \in Keys(ck.m_cache[1]),
                         would |-> Result(infer_type(e, CtxVal[c],
                                     Start(ck.m_cache, FALSE, FALSE, 0, subst)))]
                   ELSE NoCall
        /\ seen' \in IF seen # NoCall /\ seen.ctx = c /\ seen.sub = subst /\ seen.ver = r.st.ver
                     THEN {seen}
                     ELSE IF r.err = "" /\ keep
                          THEN {[e |-> e, ctx |-> c, sub |-> subst, ver |-> r.st.ver, ty |-> r.ty]}
                          ELSE {NoCall}
  /\ UNCHANGED subst_ts

\* clear() that also withdraws a pending interrupt
Clear_ResetsInterrupt ==
  /\ LET ck == clear(Self)
     IN /\ m_ctx' = ck.m_ctx
        /\ m_subst' = ck.m_subst
        /\ m_subst_timestamp' = ck.m_subst_timestamp
        /\ m_cache' = ck.m_cache
  /\ last' = [op |-> "clear", pre |-> Pre]
  /\ intd' = NoCall
  /\ seen' = NoCall
  /\ m_interrupted' = FALSE
  /\ norm_interrupted' = FALSE
  /\ UNCHANGED subst_ts

\* clear()
Clear ==
  /\ LET ck == clear(Self)
     IN /\ m_ctx' = ck.m_ctx
        /\ m_subst' = ck.m_subst
        /\ m_subst_timestamp' = ck.m_subst_timestamp
        /\ m_cache' = ck.m_cache
  /\ last' = [op |-> "clear", pre |-> Pre]
  /\ intd' = NoCall
  /\ seen' = NoCall
  /\ UNCHANGED <<m_interrupted, norm_interrupted, subst_ts>>

\* set_interrupt(flag) that sets the checker's flag only
SetInterrupt_NoPropagate(flag) ==
  /\ m_interrupted' = flag
  /\ last' = [op |-> "set_interrupt", flag |-> flag]
  /\ seen' = NoCall
  /\ UNCHANGED <<m_ctx, m_subst, m_subst_timestamp, m_cache, subst_ts, intd,
                 norm_interrupted>>

\* set_interrupt(flag)
SetInterrupt(flag) ==
  /\ m_interrupted' = flag
  /\ norm_interrupted' = flag
  /\ last' = [op |-> "set_interrupt", flag |-> flag]
  /\ seen' = NoCall
  /\ UNCHANGED <<m_ctx, m_subst, m_subst_timestamp, m_cache, subst_ts, intd>>

\* The unifier mutates a substitution object between two calls
Mutate(s) ==
  /\ subst_ts[s] < MaxTs
  /\ subst_ts' = [subst_ts EXCEPT ![s] = @ + 1]
  /\ last' = [op |-> "mutate", sub |-> s]
  /\ intd' = NoCall
  /\ seen' = NoCall
  /\ UNCHANGED <<m_ctx, m_subst, m_subst_timestamp, m_cache, m_interrupted, norm_interrupted>>

\* The calls that are made: an expression and the context object it is
\* inferred under
Inputs ==
  { <<1, 0>>, <<19, 0>>, <<17, 0>>, <<18, 1>>, <<20, 0>>, <<21, 1>>, <<22, 0>>,
    <<5, 3>>, <<3, 1>>,
    <<4, 1>>, <<4, 2>>, <<4, 3>>, <<7, 1>>, <<7, 2>>, <<8, 1>>, <<8, 2>>, <<9, 1>>,
    <<10, 0>>, <<12, 0>>, <<12, 1>>, <<14, 0>>, <<15, 1>>, <<16, 0>>, <<23, 0>>,
    <<24, 3>>, <<3, 3>>, <<25, 1>>, <<6, 0>>, <<4, 4>>, <<26, 0>>,
    <<30, 0>> }

Next ==
  \/ \E in \in Inputs, s \in SubstObjs \cup {NoSubst} :
        \/ Infer(in[1], in[2], s, FALSE, 0, FALSE)
        \/ \E fuel \in 1..MaxFuel : Infer(in[1], in[2], s, TRUE, fuel, FALSE)
  \/ Clear
  \/ \E flag \in BOOLEAN : SetInterrupt(flag)
  \/ \E s \in SubstObjs : Mutate(s)

Spec == Init /\ [][Next]_vars

\* The same checker, uninterrupted, with an earlier call of each run of calls
\* under one context and substitution version remembered in `seen`
NextSeen ==
  \/ \E in \in Inputs, s \in SubstObjs \cup {NoSubst}, keep \in BOOLEAN :
        Infer(in[1], in[2], s, FALSE, 0, keep)
  \/ Clear
  \/ \E s \in SubstObjs : Mutate(s)

SpecSeen == Init /\ [][NextSeen]_vars

(***************************************************************************)
(* Vocabulary of the properties                                            *)
(***************************************************************************)
IsInfer == last.op = "infer"

Failed == IsInfer /\ last.res.err # ""

\* The nodes the last call inserted, and those of them still in the cache
InsKeys == {i.e : i \in last.ins}

NewEntries == {x \in m_cache[1] : x.e \in InsKeys}

\* Nothing the cache held before the last call was kept or returned by it
Discarded ==
  /\ Keys(m_cache[1]) \subseteq InsKeys
  /\ \A h \in last.hits : h.e \in InsKeys

\* e is dispatched to the expensive tier under ctx
Expensive(e, ctx) ==
  \/ Node[e].k \in {"App", "Lam", "Pi", "Let"}
  \/ Node[e].k = "Var" /\ lookup(ctx, Node[e].i).dom = NoExpr

\* What a checker whose cache is empty returns for the last call
ColdResult ==
  Result(infer_type(last.e, CtxVal[last.ctx],
                    Start(EmptyCache, m_interrupted, FALSE, 0, last.sub)))

(***************************************************************************)
(* Properties                                                              *)
(***************************************************************************)

\* C1: cache transparency.  A call that no interrupt arrives in returns the
\* type or the error that the same call returns from an empty cache.
C1_CacheTransparency ==
  IsInfer /\ ~last.arm => last.res = ColdResult

\* C2: invalidation on substitution change.  A call given another
\* substitution object than the last-seen one discards the cache and records
\* the object and its version; a call given the same object at a greater
\* version discards the cache and records the version; every entry a lookup
\* returns was inserted under the call's substitution object and version.
C2_SubstInvalidation ==
  IsInfer =>
    /\ last.pre.subst_differs =>
         Discarded /\ m_subst = last.sub /\ m_subst_timestamp = last.ver
    /\ last.pre.version_advanced => Discarded /\ m_subst_timestamp = last.ver
    /\ \A h \in last.hits : h.sub = last.sub /\ h.ver = last.ver

\* C2 case: the root was cached, the substitution object or its version
\* changed, and the call computed and inserted the root again
C2_Witness ==
  /\ IsInfer /\ last.pre.cached /\ ~last.pre.ctx_differs
  /\ last.pre.subst_differs \/ last.pre.version_advanced
  /\ last.e \in InsKeys

\* C3: invalidation on context change.  A call given a context object that
\* is not the last-seen one discards the cache and records the object, so
\* that no entry of an earlier call is returned.
C3_ContextInvalidation ==
  IsInfer => /\ m_ctx = last.ctx
             /\ last.pre.ctx_differs => Discarded

\* C3 case: the root was cached under a distinct, structurally equal context
\* object, and the call computed and inserted it again
C3_Witness ==
  /\ IsInfer /\ last.pre.ctx_differs /\ last.pre.ctx_equal /\ last.pre.cached
  /\ last.e \in InsKeys /\ last.hits = {}

\* C4: interruption is level-triggered.  A call that finds the flag set and
\* whose root is in the expensive tier fails with Interrupted without probing
\* or populating the cache, even when the root is cached; no operation other
\* than set_interrupt resets the flag; and a call made again with the flag
\* reset after an interrupted one returns what the interrupted call would
\* have returned had no interrupt arrived.
C4_LevelTriggered ==
  /\ last.op \in {"infer", "clear"} /\ last.pre.intr => m_interrupted
  /\ IsInfer =>
       /\ last.pre.intr /\ Expensive(last.e, CtxVal[last.ctx]) =>
            /\ last.res.err = "Interrupted"
            /\ last.probes = {} /\ last.hits = {} /\ last.ins = {}
       /\ last.pre.resume # NoCall /\ ~last.pre.intr /\ ~last.arm =>
            last.res = last.pre.resume.would

\* C5: determinism.  A successful call returns the type that an earlier
\* successful call with the same expression, context object, substitution
\* object and version returned, when only calls with that context and
\* substitution version were made in between.
C5_Determinism ==
  /\ IsInfer /\ last.res.err = "" /\ seen # NoCall
  /\ seen.e = last.e /\ seen.ctx = last.ctx /\ seen.sub = last.sub /\ seen.ver = last.ver
  => last.res.ty = seen.ty

\* C6: clear() resets cache and lifecycle state.  Right after clear() the
\* cache is empty, the last-seen context is the empty context, the last-seen
\* substitution is none and the recorded version is 0.
C6_ClearResets ==
  last.op = "clear" =>
    /\ m_cache = EmptyCache /\ m_ctx = EmptyCtx
    /\ m_subst = NoSubst /\ m_subst_timestamp = 0

\* C6 case: clear() found a populated cache, a context and a substitution
\* with a recorded version
C6_Witness ==
  /\ last.op = "clear" /\ last.pre.keys # {} /\ last.pre.m_ctx # EmptyCtx
  /\ last.pre.m_subst # NoSubst /\ last.pre.m_subst_timestamp > 0

\* C7 as stated: after clear() every component of the session state, the
\* interrupt flag included, has its initial value.
C7_ClearResetsAll ==
  last.op = "clear" =>
    /\ m_cache = EmptyCache /\ m_ctx = EmptyCtx
    /\ m_subst = NoSubst /\ m_subst_timestamp = 0
    /\ m_interrupted = FALSE

\* C7 as amended: after clear() the cache, the last-seen context and the
\* last-seen substitution with its version have their initial values, and
\* the interrupt flag is as clear() found it.
C7_ClearKeepsInterrupt ==
  last.op = "clear" =>
    /\ m_cache = EmptyCache /\ m_ctx = EmptyCtx
    /\ m_subst = NoSubst /\ m_subst_timestamp = 0
    /\ m_interrupted = last.pre.intr

\* C7 case: clear() on a checker whose interrupt flag is set and whose cache
\* is populated
C7_Witness ==
  last.op = "clear" /\ last.pre.intr /\ m_interrupted /\ last.pre.keys # {}

\* The nodes of the invocations the failure of the last call passed through
PathNodes == {last.path[j].e : j \in 1..Len(last.path)}

PathIds == {last.path[j].id : j \in 1..Len(last.path)}

\* C8 as stated: a failed call returns no type, leaves no entry for the node
\* at which it failed nor for an ancestor of it, and adds entries only for
\* nodes whose inference completed in it.
C8_NoEntryForFailedNode ==
  Failed =>
    /\ last.res.ty = NoExpr
    /\ Keys(NewEntries) \cap PathNodes = {}
    /\ Keys(NewEntries) \subseteq {d.e : d \in last.done}

\* C8 as amended: a failed call returns no type, and every entry it adds was
\* inserted by an invocation of infer_type that completed before the failure,
\* never by the failing invocation or one enclosing it.
C8_EntriesFromCompletedInvocations ==
  Failed =>
    /\ last.res.ty = NoExpr
    /\ \A x \in NewEntries :
         \E i \in last.ins : i.e = x.e /\ i.at = x.at
    /\ \A i \in last.ins :
         /\ [e |-> i.e, id |-> i.by] \in last.done
         /\ i.by \notin PathIds

\* C8 case: a call failed with TypeExpected after it had cached a shared
\* subexpression
C8_Witness ==
  Failed /\ last.res.err = "TypeExpected" /\ NewEntries # {}

\* C9: the cache is probed and populated only for shared nodes of the
\* expensive tier, so every key is one; a call on a cheap node does not
\* touch the cache.
C9_CacheUsage ==
  /\ \A x \in m_cache[1] : is_shared(x.e) /\ Expensive(x.e, x.at)
  /\ IsInfer =>
       /\ \A q \in last.probes : is_shared(q.e) /\ Expensive(q.e, q.at)
       /\ \A i \in last.ins : is_shared(i.e) /\ Expensive(i.e, i.at)
       /\ ~Expensive(last.e, CtxVal[last.ctx]) =>
            last.probes = {} /\ last.ins = {} /\ last.hits = {}

\* C9 case: an unshared node of the expensive tier was inferred, its shared
\* subexpression was probed, and the cache holds a shared Var
C9_Witness ==
  /\ IsInfer /\ ~is_shared(last.e) /\ Expensive(last.e, CtxVal[last.ctx])
  /\ last.res.err = "" /\ last.probes # {}
  /\ \E x \in m_cache[1] : Node[x.e].k = "Var"

\* C10: mutation of the substitution between calls.  The first call after a
\* mutation discards the cache, the recorded version is the current one after
\* every call, and no lookup returns an entry of an older version than the
\* one current at the start of the call.
C10_NoStaleVersion ==
  IsInfer =>
    /\ last.pre.version_advanced => Discarded
    /\ m_subst # NoSubst => m_subst_timestamp = subst_ts[m_subst]
    /\ \A x \in last.hits \cup m_cache[1] : ~(x.ver < last.ver)

\* C10 case: the first call after a mutation on a root cached under the
\* older version, which the call computed and inserted under the current one
C10_Witness ==
  /\ IsInfer /\ last.pre.version_advanced /\ last.pre.cached
  /\ last.ver > 0 /\ last.res.err = "" /\ last.hits = {}
  /\ \E x \in m_cache[1] : x.e = last.e /\ x.ver = last.ver

\* The lifecycle fields as set_ctx and set_subst leave them at the start of
\* the call that the step makes
AfterLifecycle == set_subst(set_ctx(Self, last'.ctx), last'.sub)

\* The call of the step found the last-seen context object and the last-seen
\* substitution at its recorded version
SameSession ==
  /\ ~last'.pre.ctx_differs /\ ~last'.pre.subst_differs
  /\ ~last'.pre.version_advanced

CallStart == Start(AfterLifecycle.m_cache, m_interrupted, FALSE, 0, last'.sub)

\* The root of the call that the step makes is not served from the cache
RootComputed ==
  ~(is_shared(last'.e) /\ last'.e \in Keys(AfterLifecycle.m_cache[1]))

\* The universe level of a term whose inferred type is r.ty: the level of
\* the sort its normal form is, the bottom level for the proposition sort
LevelOf(r, ctx) ==
  LET sort(u) ==
        IF u.k = "Type" THEN [err |-> "", l |-> u.l, st |-> r.st]
        ELSE IF u = Value("Bool") THEN [err |-> "", l |-> 0, st |-> r.st]
        ELSE [err |-> "TypeExpected", l |-> 0, st |-> r.st]
  IN IF r.err # "" THEN [err |-> r.err, l |-> 0, st |-> r.st]
     ELSE sort(normalize(r.ty, ctx))

\* What the Pi rule gives for node e under ctx from state st
PiRule(e, ctx, st) ==
  LET inner == extend(ctx, Val(Node[e].d), 0)
      cod(l1, l2) ==
        IF l2.err # "" THEN [err |-> l2.err, ty |-> NoExpr]
        ELSE [err |-> "", ty |-> [k |-> "Type", l |-> max(l1.l, l2.l)]]
      dom(l1) ==
        IF l1.err # "" THEN [err |-> l1.err, ty |-> NoExpr]
        ELSE cod(l1, LevelOf(infer_type(Node[e].b, inner, PushScope(l1.st)), inner))
  IN dom(LevelOf(infer_type(Node[e].d, ctx, st), ctx))

\* C12: Pi rule.  A call on a Pi node, with no interrupt, returns
\* Type(max(l_dom, l_body)), l_dom the universe level of the domain under
\* the context and l_body that of the body under the extended context; the
\* level of a term is n when its normalized inferred type is Type(n), bottom
\* when it is Bool, and the call fails with TypeExpected otherwise.
C12_PiRule ==
  [][/\ IsInfer' /\ Node[last'.e].k = "Pi" /\ ~last'.arm
     /\ ~m_interrupted /\ RootComputed
     => last'.res = PiRule(last'.e, CtxVal[last'.ctx], CallStart)]_vars

\* C12 case: a Pi whose body lies in a higher universe than its domain
C12_Witness ==
  /\ IsInfer /\ Node[last.e].k = "Pi" /\ ~last.pre.intr
  /\ last.res.err = "" /\ last.res.ty.l > 0

\* The number of leading Pi binders of t, and t without k of them
RECURSIVE PiDepth(_)
PiDepth(t) == IF t.k = "Pi" THEN 1 + PiDepth(t.b) ELSE 0

RECURSIVE Strip(_, _)
Strip(t, k) == IF k = 0 THEN t ELSE Strip(t.b, k - 1)

\* The free de Bruijn indices of t
RECURSIVE FreeIdx(_)
FreeIdx(t) ==
  LET under(b) == {i - 1 : i \in FreeIdx(b) \ {0}}
  IN CASE t.k = "Var" -> {t.i}
       [] t.k = "App" -> FreeIdx(t.f) \cup UNION {FreeIdx(t.a[j]) : j \in 1..Len(t.a)}
       [] t.k \in {"Lam", "Pi"} -> FreeIdx(t.d) \cup under(t.b)
       [] t.k = "Let" -> FreeIdx(t.t) \cup FreeIdx(t.v) \cup under(t.b)
       [] t.k = "Eq" -> FreeIdx(t.l) \cup FreeIdx(t.r)
       [] OTHER -> {}

\* The actual arguments of application node e
Args(e) == [j \in 1..Len(Node[e].a) |-> Val(Node[e].a[j])]

\* The inference of the head of application node e that the call of the
\* step makes
HeadOf(e) == infer_type(Node[e].f, CtxVal[last'.ctx], CallStart)

\* The call of the step is on an application whose head type is a chain of
\* at least as many Pi binders as there are arguments
PeelsSyntactically ==
  /\ IsInfer' /\ Node[last'.e].k = "App" /\ ~last'.arm
  /\ ~m_interrupted /\ RootComputed
  /\ HeadOf(last'.e).err = ""
  /\ PiDepth(HeadOf(last'.e).ty) >= Len(Node[last'.e].a)

\* C13 as stated: the body reached after peeling k binders is returned
\* unchanged when it has no free reference to a peeled binder, and with the
\* peeled binders instantiated by the arguments otherwise; the arguments'
\* types are not inferred.
C13_PeelingAsStated ==
  [][PeelsSyntactically =>
       LET k == Len(Node[last'.e].a)
           B == Strip(HeadOf(last'.e).ty, k)
       IN /\ last'.res.err = ""
          /\ last'.res.ty = IF FreeIdx(B) \cap (0..(k - 1)) = {} THEN B
                            ELSE instantiate(B, k, Args(last'.e))
          /\ last'.calls = 1 + HeadOf(last'.e).st.calls]_vars

\* C13 as amended: the body is returned unchanged when it is closed; when it
\* has a free variable, the peeled binders are instantiated by the arguments
\* and the free variables of the enclosing context are lowered by k.
C13_PeelingClosedOrInstantiated ==
  [][PeelsSyntactically =>
       LET k == Len(Node[last'.e].a)
           B == Strip(HeadOf(last'.e).ty, k)
       IN /\ last'.res.err = ""
          /\ last'.res.ty = IF FreeIdx(B) = {} THEN B
                            ELSE instantiate(B, k, Args(last'.e))
          /\ FreeIdx(B) # {} =>
               FreeIdx(last'.res.ty) =
                 {i - k : i \in {j \in FreeIdx(B) : j >= k}}
                   \cup UNION {FreeIdx(Args(last'.e)[k - i]) :
                                 i \in {j \in FreeIdx(B) : j < k}}
          /\ last'.calls = 1 + HeadOf(last'.e).st.calls]_vars

\* C13 case: an application whose peeled body refers to the enclosing
\* context and to no peeled binder, returned with that reference lowered
C13_Witness ==
  /\ IsInfer /\ Node[last.e].k = "App" /\ last.res.err = "" /\ last.calls = 2
  /\ LET T == lookup(CtxVal[last.ctx], 0).dom
         k == Len(Node[last.e].a)
     IN /\ Node[Node[last.e].f].k = "Var" /\ Node[Node[last.e].f].i = 0
        /\ T # NoExpr /\ PiDepth(T) >= k
        /\ FreeIdx(Strip(T, k)) # {}
        /\ FreeIdx(Strip(T, k)) \cap (0..(k - 1)) = {}
        /\ last.res.ty # Strip(T, k)

\* C14: function-expected failure.  get_range calls the normalizer only at
\* a step whose type is not syntactically a Pi, and once at such a step; when
\* the normal form is not a Pi either, that is the last step and the call
\* fails with FunctionExpected, and a call fails so only after such a step.
C14_FunctionExpected ==
  IsInfer =>
    LET n == last.norms
        stuck(j) == ~is_pi(normalize(n[j].t, n[j].at))
    IN /\ \A j \in 1..Len(n) : ~is_pi(n[j].t)
       /\ \A i, j \in 1..Len(n) : n[i] = n[j] => i = j
       /\ \A j \in 1..Len(n) :
            stuck(j) => j = Len(n) /\ last.res.err = "FunctionExpected"
       /\ last.res.err = "FunctionExpected" => Len(n) > 0 /\ stuck(Len(n))

\* C14 case: the head type of an application is not a Pi and its normal
\* form is not one either
C14_Witness ==
  /\ IsInfer /\ Node[last.e].k = "App" /\ last.res.err = "FunctionExpected"
  /\ Len(last.norms) = 1 /\ last.norms[1].e = last.e

\* What the Let rule gives for node e under ctx from state st: the outcome of
\* the body under ctx extended with the declared type and the value of the
\* let, and the number of invocations of infer_type that takes
LetRule(e, ctx, st) ==
  LET of_body(r) == [res |-> Result(r), calls |-> r.st.calls]
  IN of_body(infer_type(Node[e].b,
                        Append(ctx, [dom |-> Val(Node[e].t), body |-> Node[e].v]),
                        PushScope(st)))

\* C15: Let rule.  A call on a Let node, with no interrupt, returns exactly
\* the outcome of inferring the body under the context extended with the
\* full binding (declared type and value); the only invocations of
\* infer_type besides the one on the Let node are those of the body, so the
\* declared type and the value are inferred only as far as the body reaches
\* them through the let variable, and the call fails with TypeExpected only
\* when the body does.
C15_LetRule ==
  [][/\ IsInfer' /\ Node[last'.e].k = "Let" /\ ~last'.arm
     /\ ~m_interrupted /\ RootComputed
     => LET rule == LetRule(last'.e, CtxVal[last'.ctx], CallStart)
        IN /\ last'.res = rule.res
           /\ last'.calls = 1 + rule.calls
           /\ last'.res.err = "TypeExpected" => rule.res.err = "TypeExpected"]_vars

\* C15 case: a let whose declared type and value cannot be typed on their
\* own, while the body does not mention the variable
C15_Witness ==
  /\ IsInfer /\ Node[last.e].k = "Let" /\ ~last.pre.intr /\ ~last.arm
  /\ Node[Node[last.e].v].k = "Const" /\ ~Env[Node[Node[last.e].v].n].has_type
  /\ last.res = [err |-> "", ty |-> Const("N")] /\ last.calls = 2

\* C16: interrupt propagation.  set_interrupt(b) leaves both the checker's
\* flag and the normalizer's flag at b; the two flags are equal after any
\* sequence of set_interrupt, infer and clear; and an infer call during
\* which no set_interrupt arrives changes neither flag, whether it returns
\* or fails.
C16_InterruptPropagation ==
  /\ [](norm_interrupted = m_interrupted)
  /\ [](last.op = "set_interrupt" =>
          m_interrupted = last.flag /\ norm_interrupted = last.flag)
  /\ [][IsInfer' /\ ~last'.arm =>
          m_interrupted' = m_interrupted /\ norm_interrupted' = norm_interrupted]_vars

\* C16 case: a call on an expensive node made with the flag set, which
\* fails and finds both flags still set
C16_Witness ==
  /\ IsInfer /\ ~last.arm /\ last.pre.intr /\ last.res.err = "Interrupted"
  /\ m_interrupted /\ norm_interrupted

\* The scopes named in a sequence of open scopes
OpenScopes(open) == {open[j] : j \in 1..Len(open)}

\* C17: scope stack discipline.  Whatever the last operation was, and however
\* a call ended, one scope, the outermost, is open: the depth after a call is
\* the depth before it.  Every entry the cache holds was inserted in the
\* outermost scope; every entry a call inserted in the scope of a binder
\* body is gone after the call; and every entry a lookup returned during the
\* call was inserted in a scope still open at the lookup.
C17_ScopeDiscipline ==
  /\ Len(m_cache) = 1
  /\ \A x \in m_cache[1] : x.sc = 0
  /\ IsInfer =>
       /\ \A i \in last.ins : i.sc # 0 =>
            ~\E x \in m_cache[1] : x.e = i.e /\ x.at = i.at /\ x.sc = i.sc
       /\ \A h \in last.hits : h.sc \in OpenScopes(h.open)

\* C17 case: a call that fails with TypeExpected inside the body of a Pi,
\* after a node was inserted in the scope of a let body, looked up again
\* after that scope was left, not found, and inserted in the second scope
C17_Witness ==
  /\ IsInfer /\ last.res.err = "TypeExpected" /\ Len(last.path) > 1
  /\ \E i, j \in last.ins :
       i.e = j.e /\ i.sc # 0 /\ j.sc # 0 /\ i.sc # j.sc /\ i.by # j.by
  /\ last.hits = {}

\* C18: cache entry validity.  Every entry that a lookup of a call returned
\* was computed under the context the lookup was made in and under the
\* substitution object and version of the call.
C18_EntryValidity ==
  IsInfer =>
    \A h \in last.hits : h.at = h.use /\ h.sub = last.sub /\ h.ver = last.ver

\* C19: cache persistence across calls.  When a call supplies the last-seen
\* context object and the last-seen substitution object at its recorded
\* version (or no substitution when none is recorded), the lifecycle step
\* changes none of the cache, the last-seen context, the last-seen
\* substitution and the recorded version, and the call leaves the last three
\* as they were; the entries of the outermost scope are still in the cache
\* after the call, and a call on a node that has one, with no interrupt, is
\* answered from the entry by its first invocation.
C19_CachePersistence ==
  [][IsInfer' /\ SameSession =>
       /\ AfterLifecycle = Self
       /\ m_ctx' = m_ctx /\ m_subst' = m_subst
       /\ m_subst_timestamp' = m_subst_timestamp
       /\ m_cache[1] \subseteq m_cache'[1]
       /\ last'.e \in Keys(m_cache[1]) /\ ~last'.arm /\ ~m_interrupted =>
            /\ \E x \in m_cache[1] :
                 x.e = last'.e /\ last'.res = [err |-> "", ty |-> x.ty]
            /\ last'.e \in {h.e : h \in last'.hits}
            /\ last'.calls = 1 /\ last'.ins = {}]_vars

\* C19 case: a call under a substitution at a version above zero whose node
\* was inserted by an earlier call under the same context object and the
\* same version, and which is answered from that entry
C19_Witness ==
  /\ IsInfer /\ ~last.pre.ctx_differs /\ ~last.pre.subst_differs
  /\ ~last.pre.version_advanced /\ last.pre.cached
  /\ last.sub # NoSubst /\ last.ver > 0
  /\ last.res.err = "" /\ last.calls = 1 /\ last.e \in {h.e : h \in last.hits}

\* The nodes a node refers to
Children(e) ==
  LET n == Node[e]
  IN (CASE n.k = "App" -> {n.f} \cup {n.a[j] : j \in 1..Len(n.a)}
        [] n.k \in {"Lam", "Pi"} -> {n.d, n.b}
        [] n.k = "Let" -> {n.t, n.v, n.b}
        [] n.k = "Eq" -> {n.l, n.r}
        [] n.k = "Meta" -> {n.t}
        [] OTHER -> {}) \ {0}

\* The size of the term of a node, and the size of a recursive call: the
\* size of its node plus the sizes of the values of the entries of its
\* context
RECURSIVE NodesSize(_)
RECURSIVE NodeSize(_)
NodesSize(S) ==
  IF S = {} THEN 0
  ELSE LET x == CHOOSE y \in S : TRUE IN NodeSize(x) + NodesSize(S \ {x})

NodeSize(e) == 1 + NodesSize(Children(e))

RECURSIVE CtxWeight(_)
CtxWeight(ctx) ==
  IF ctx = << >> THEN 0
  ELSE (IF ctx[Len(ctx)].body = 0 THEN 0 ELSE NodeSize(ctx[Len(ctx)].body))
       + CtxWeight(SubSeq(ctx, 1, Len(ctx) - 1))

Measure(e, ctx) == NodeSize(e) + CtxWeight(ctx)

\* The outcomes of a call that returns
Errors ==
  {"", "Interrupted", "TypeExpected", "FunctionExpected", "UntypedConstant",
   "UnassignedMetavariable"}

\* A recursive call on a direct subterm, under the context of the caller or
\* its extension by one entry
Descends(s) ==
  /\ s.to \in Children(s.e)
  /\ Len(s.in) \in {Len(s.at), Len(s.at) + 1}
  /\ SubSeq(s.in, 1, Len(s.at)) = s.at

\* A recursive call of a Var whose entry has no domain, on the value of the
\* entry under the strictly shorter context the entry was introduced in
Chases(s) ==
  /\ Node[s.e].k = "Var"
  /\ lookup(s.at, Node[s.e].i).dom = NoExpr
  /\ s.to = lookup(s.at, Node[s.e].i).body
  /\ Len(s.in) < Len(s.at)
  /\ s.in = SubSeq(s.at, 1, Len(s.at) - Node[s.e].i - 1)

\* C20: termination.  Every call returns a type or fails with one of the
\* errors of the checker, within the bound on invocations; every recursive
\* call it made is on a direct subterm of the caller's node, or is made by a
\* Var without domain on the value of its entry under the strictly shorter
\* context of that entry; and every recursive call is strictly smaller than
\* its caller in a measure that is a natural number.
C20_Termination ==
  IsInfer =>
    /\ last.res.err \in Errors
    /\ last.res.err = "" => last.res.ty # NoExpr
    /\ last.calls <= MaxCalls
    /\ \A s \in last.steps :
         /\ Descends(s) \/ Chases(s)
         /\ Measure(s.to, s.in) \in Nat
         /\ Measure(s.to, s.in) < Measure(s.e, s.at)

\* C20 case: a call that went through a Var without domain into the value
\* of its entry, descended from there to a subterm, and returned a type
C20_Witness ==
  /\ IsInfer /\ last.res.err = ""
  /\ \E s, t \in last.steps :
       /\ Chases(s) /\ Descends(t)
       /\ t.e = s.to /\ t.at = s.in

====
